---- MODULE Spec2Model ----
(***************************************************************************)
(* Model of pkg/audit/policy/checker.go: the audit policy rule evaluator.  *)
(*                                                                         *)
(* Strings that the code only compares for equality (user names, groups,   *)
(* verbs, namespaces, API groups, resource names, levels, stages) are      *)
(* TLA+ strings.  Strings that the code takes apart (resource type specs,  *)
(* resources, subresources, paths, path specs) are sequences of            *)
(* one-character strings, and the strings package functions used on them   *)
(* are defined below on such sequences.                                    *)
(*                                                                         *)
(* A Go pointer to a bool, and the user.Info interface value, are modelled *)
(* as a sequence of length 0 (nil) or 1 (the value pointed to).            *)
(***************************************************************************)
EXTENDS Integers, Sequences, FiniteSets, TLC

VARIABLES
    policy,      \* the caller's *audit.Policy: OmitStages, OmitManagedFields
    rules,       \* the backing array of policy.Rules, shared by every evaluator
    declared,    \* history: each rule's OmitStages as first declared
    evaluators,  \* the policyRuleEvaluator values returned so far
    newPc,       \* position of the NewPolicyRuleEvaluator call
    newIdx,      \* its loop index i (line 35)
    newCalls,    \* how many NewPolicyRuleEvaluator calls were started
    evalPc,      \* per goroutine: position of its EvaluatePolicyRule call
    evalIdx,     \* per goroutine: its loop index (line 174)
    evalP,       \* per goroutine: its receiver p
    attrs,       \* per goroutine: its argument
    result,      \* per goroutine: what its last finished call returned,
                 \* <<>> or <<disposition>>
    stdout,      \* the texts written to the standard output so far
    args,        \* arguments of a direct call of a matching helper
    ret          \* its return value: <<>> or <<value>>

vars == <<policy, rules, declared, evaluators, newPc, newIdx, newCalls,
          evalPc, evalIdx, evalP, attrs, result, stdout, args, ret>>

lifeVars == <<policy, rules, declared, evaluators, newPc, newIdx, newCalls,
              evalPc, evalIdx, evalP, attrs, result, stdout>>

(***************************************************************************)
(* Bounds of the model.                                                    *)
(***************************************************************************)
MaxRules == 2
MaxStageLen == 2
MaxNewCalls == 2
NumGoroutines == 2
MaxPathLen == 3
MaxResLen == 3

(***************************************************************************)
(* Sequences and the strings package.                                      *)
(***************************************************************************)
Range(s) == {s[i] : i \in 1..Len(s)}

SeqsUpTo(S, n) == UNION {[1..k -> S] : k \in 0..n}

NoDuplicates(s) == \A i, j \in 1..Len(s) : s[i] = s[j] => i = j

\* every ordering of a finite set, as a sequence without repetition
Orderings(S) ==
    {s \in [1..Cardinality(S) -> S] : Range(s) = S}

HasPrefix(s, prefix) ==
    /\ Len(prefix) <= Len(s)
    /\ SubSeq(s, 1, Len(prefix)) = prefix

HasSuffix(s, suffix) ==
    /\ Len(suffix) <= Len(s)
    /\ SubSeq(s, Len(s) - Len(suffix) + 1, Len(s)) = suffix

TrimPrefix(s, prefix) ==
    IF HasPrefix(s, prefix) THEN SubSeq(s, Len(prefix) + 1, Len(s)) ELSE s

TrimSuffix(s, suffix) ==
    IF HasSuffix(s, suffix) THEN SubSeq(s, 1, Len(s) - Len(suffix)) ELSE s

\* strings.TrimRight(s, cutset): s without ALL its trailing characters that
\* are in cutset
RECURSIVE TrimRight(_, _)
TrimRight(s, cutset) ==
    IF s # <<>> /\ s[Len(s)] \in cutset
    THEN TrimRight(SubSeq(s, 1, Len(s) - 1), cutset)
    ELSE s

Star == <<"*">>
Slash == <<"/">>
StarSlash == <<"*", "/">>
SlashStar == <<"/", "*">>

(***************************************************************************)
(* The matching helpers.                                                   *)
(***************************************************************************)
Nil == <<>>
Ptr(v) == <<v>>
Deref(p) == p[1]

DefaultAuditLevel == "None"

hasString(slice, value) == \E i \in 1..Len(slice) : slice[i] = value

\* pathMatches stripping one trailing "*" only
pathMatches_TrimSuffix(path, spec) ==
    IF spec = Star THEN TRUE
    ELSE IF spec = path THEN TRUE
    ELSE IF HasSuffix(spec, Star) /\ HasPrefix(path, TrimSuffix(spec, Star)) THEN TRUE
    ELSE FALSE

pathMatches(path, spec) ==
    IF spec = Star THEN TRUE
    ELSE IF spec = path THEN TRUE
    ELSE IF HasSuffix(spec, Star) /\ HasPrefix(path, TrimRight(spec, {"*"})) THEN TRUE
    ELSE FALSE

ruleMatchesNonResource(r, a) ==
    IF a.IsResourceRequest THEN FALSE
    ELSE \E i \in 1..Len(r.NonResourceURLs) : pathMatches(a.Path, r.NonResourceURLs[i])

\* the body of the inner loop (lines 312-324): one type spec of one tuple
resourceSpecMatches(gr, res, a) ==
    LET resource == a.Resource
        subresource == a.Subresource
        combinedResource ==
            IF subresource # <<>> THEN resource \o Slash \o subresource ELSE resource
    IN  /\ Len(gr.ResourceNames) = 0 \/ hasString(gr.ResourceNames, a.Name)
        /\ \/ res = combinedResource \/ res = Star
           \/ /\ Len(subresource) > 0
              /\ HasPrefix(res, StarSlash)
              /\ subresource = TrimPrefix(res, StarSlash)
           \/ /\ HasSuffix(res, SlashStar)
              /\ resource = TrimSuffix(res, SlashStar)

ruleMatchesResource(r, a) ==
    IF ~a.IsResourceRequest THEN FALSE
    ELSE IF Len(r.Namespaces) > 0 /\ ~hasString(r.Namespaces, a.Namespace) THEN FALSE
    ELSE IF Len(r.Resources) = 0 THEN TRUE
    ELSE \E g \in 1..Len(r.Resources) :
            LET gr == r.Resources[g]
            IN  /\ gr.Group = a.APIGroup
                /\ \/ Len(gr.Resources) = 0
                   \/ \E k \in 1..Len(gr.Resources) :
                          resourceSpecMatches(gr, gr.Resources[k], a)

\* ruleMatches with the identity checks skipped for a request without a user
ruleMatches_FailOpen(r, a) ==
    LET user == a.User
    IN  IF Len(r.Users) > 0 /\ user # Nil /\ ~hasString(r.Users, Deref(user).Name)
        THEN FALSE
        ELSE IF Len(r.UserGroups) > 0
                /\ user # Nil
                /\ ~\E g \in 1..Len(Deref(user).Groups) :
                       hasString(r.UserGroups, Deref(user).Groups[g])
        THEN FALSE
        ELSE IF Len(r.Verbs) > 0 /\ ~hasString(r.Verbs, a.Verb) THEN FALSE
        ELSE IF Len(r.Namespaces) > 0 \/ Len(r.Resources) > 0
        THEN ruleMatchesResource(r, a)
        ELSE IF Len(r.NonResourceURLs) > 0 THEN ruleMatchesNonResource(r, a)
        ELSE TRUE

ruleMatches(r, a) ==
    LET user == a.User
    IN  IF Len(r.Users) > 0 /\ (user = Nil \/ ~hasString(r.Users, Deref(user).Name))
        THEN FALSE
        ELSE IF Len(r.UserGroups) > 0
                /\ (user = Nil
                    \/ ~\E g \in 1..Len(Deref(user).Groups) :
                           hasString(r.UserGroups, Deref(user).Groups[g]))
        THEN FALSE
        ELSE IF Len(r.Verbs) > 0 /\ ~hasString(r.Verbs, a.Verb) THEN FALSE
        ELSE IF Len(r.Namespaces) > 0 \/ Len(r.Resources) > 0
        THEN ruleMatchesResource(r, a)
        ELSE IF Len(r.NonResourceURLs) > 0 THEN ruleMatchesNonResource(r, a)
        ELSE TRUE

isOmitManagedFields(policyRule, policyDefault) ==
    IF policyRule.OmitManagedFields = Nil THEN policyDefault
    ELSE Deref(policyRule.OmitManagedFields)

(***************************************************************************)
(* Direct calls of the path helpers: every path and path spec over a small *)
(* alphabet, and the strings of the documentation's examples.              *)
(***************************************************************************)
S_api == <<"/", "a", "p", "i">>
S_apiStar == <<"/", "a", "p", "i", "*">>
S_apisFoo == <<"/", "a", "p", "i", "s", "/", "f", "o", "o">>
S_ap == <<"/", "a", "p">>

PathAlphabet == {"/", "a", "*"}

PathStrings ==
    SeqsUpTo(PathAlphabet, MaxPathLen) \cup {S_api, S_apiStar, S_apisFoo, S_ap}

NoRule ==
    [Level |-> "None", Users |-> <<>>, UserGroups |-> <<>>, Verbs |-> <<>>,
     Resources |-> <<>>, Namespaces |-> <<>>, NonResourceURLs |-> <<>>,
     OmitStages |-> <<>>, OmitManagedFields |-> Nil]

NonResourceAttrs(path) ==
    [User |-> Nil, Verb |-> "get", IsResourceRequest |-> FALSE,
     Namespace |-> "", Resource |-> <<>>, Subresource |-> <<>>, Name |-> "",
     APIGroup |-> "", Path |-> path]

\* the goroutines that evaluate requests
Goroutines == 1..NumGoroutines

\* the state in which no evaluator was asked for: the direct calls leave it alone
LifeIdle ==
    /\ policy = [OmitStages |-> <<>>, OmitManagedFields |-> FALSE]
    /\ rules = <<>>
    /\ declared = <<>>
    /\ evaluators = {}
    /\ newPc = "idle"
    /\ newIdx = 0
    /\ newCalls = 0
    /\ evalPc = [g \in Goroutines |-> "idle"]
    /\ evalIdx = [g \in Goroutines |-> 0]
    /\ evalP = [g \in Goroutines |-> [OmitStages |-> <<>>, OmitManagedFields |-> FALSE]]
    /\ attrs = [g \in Goroutines |-> NonResourceAttrs(<<>>)]
    /\ result = [g \in Goroutines |-> <<>>]
    /\ stdout = {}

InitPath ==
    /\ LifeIdle
    /\ args \in PathStrings \X PathStrings
    /\ ret = <<>>

CallPathMatches ==
    /\ ret = <<>>
    /\ ret' = <<"pathMatches", pathMatches(args[1], args[2])>>
    /\ UNCHANGED <<args, lifeVars>>

CallRuleMatchesNonResource ==
    /\ ret = <<>>
    /\ ret' = <<"ruleMatchesNonResource",
                ruleMatchesNonResource([NoRule EXCEPT !.NonResourceURLs = <<args[2]>>],
                                       NonResourceAttrs(args[1]))>>
    /\ UNCHANGED <<args, lifeVars>>

NextPath == CallPathMatches \/ CallRuleMatchesNonResource

SpecPath == InitPath /\ [][NextPath]_vars

\* C7 as stated: a path matches a path spec exactly when the spec is "*", or
\* the spec equals the path, or the spec ends in "*" and the path starts with
\* the spec with the (one) trailing "*" stripped; "/api*" matches "/api" and
\* "/apis/foo" but not "/ap".
C7_PathSpecSemantics ==
    /\ ret # <<>> =>
          ret[2] = (\/ args[2] = Star
                    \/ args[2] = args[1]
                    \/ /\ HasSuffix(args[2], Star)
                       /\ HasPrefix(args[1], TrimSuffix(args[2], Star)))
    /\ pathMatches(S_api, S_apiStar)
    /\ pathMatches(S_apisFoo, S_apiStar)
    /\ ~pathMatches(S_ap, S_apiStar)

\* spec is stem followed by one or more "*", and stem does not end in "*"
IsStemOf(stem, spec) ==
    /\ Len(stem) < Len(spec)
    /\ stem = SubSeq(spec, 1, Len(stem))
    /\ \A j \in Len(stem) + 1..Len(spec) : spec[j] = "*"
    /\ stem = <<>> \/ stem[Len(stem)] # "*"

\* C7 as amended: a path matches a path spec exactly when the spec is "*", or
\* the spec equals the path, or the spec ends in "*" and the path starts with
\* the spec with ALL its trailing "*" characters stripped; "/api*" matches
\* "/api" and "/apis/foo" but not "/ap", and a spec that does not end in "*"
\* matches only the identical path.
C7_PathSpecSemanticsAllStars ==
    /\ ret # <<>> =>
          LET path == args[1]
              spec == args[2]
          IN  /\ ret[2] = (\/ spec = Star
                           \/ spec = path
                           \/ \E k \in 0..Len(path) :
                                  IsStemOf(SubSeq(path, 1, k), spec))
              /\ (spec = <<>> \/ spec[Len(spec)] # "*") => (ret[2] = (spec = path))
    /\ pathMatches(S_api, S_apiStar)
    /\ pathMatches(S_apisFoo, S_apiStar)
    /\ ~pathMatches(S_ap, S_apiStar)

\* a spec with two trailing "*" was matched by a path that starts with its
\* stem but not with the spec less one "*"
C7_Witness ==
    /\ ret # <<>>
    /\ ret[2]
    /\ Len(args[2]) >= 3
    /\ HasSuffix(args[2], <<"*", "*">>)
    /\ args[2] # args[1]
    /\ ~HasPrefix(args[1], TrimSuffix(args[2], Star))

(***************************************************************************)
(* Direct calls of the resource helpers.                                   *)
(***************************************************************************)
S_pods == <<"p", "o", "d", "s">>
S_podsStar == <<"p", "o", "d", "s", "/", "*">>
S_log == <<"l", "o", "g">>

ResAlphabet == {"p", "/", "*"}

ResSpecs == SeqsUpTo(ResAlphabet, MaxResLen) \cup {S_pods, S_podsStar}

GroupResourcesSet ==
    {[Group |-> g, Resources |-> rs, ResourceNames |-> ns] :
        g \in {"", "apps"},
        rs \in {<<>>} \cup {<<res>> : res \in ResSpecs},
        ns \in {<<>>, <<"web">>}}

ResourceRules ==
    {[NoRule EXCEPT !.Resources = <<gr>>, !.Namespaces = nss] :
        gr \in GroupResourcesSet, nss \in {<<>>, <<"kube-system">>}}

ResourceAttrs ==
    {[User |-> Nil, Verb |-> "get", IsResourceRequest |-> TRUE,
      Namespace |-> "default", Resource |-> res, Subresource |-> sub,
      Name |-> name, APIGroup |-> g, Path |-> <<>>] :
        res \in {<<"p">>, S_pods},
        sub \in {<<>>, <<"p">>, <<"*">>, S_log},
        name \in {"web", ""},
        g \in {"", "apps"}}
    \cup {NonResourceAttrs(S_api)}

InitResource ==
    /\ LifeIdle
    /\ args \in ResourceRules \X ResourceAttrs
    /\ ret = <<>>

CallRuleMatchesResource ==
    /\ ret = <<>>
    /\ ret' = <<"ruleMatchesResource", ruleMatchesResource(args[1], args[2])>>
    /\ UNCHANGED <<args, lifeVars>>

CallRuleMatches ==
    /\ ret = <<>>
    /\ ret' = <<"ruleMatches", ruleMatches(args[1], args[2])>>
    /\ UNCHANGED <<args, lifeVars>>

NextResource == CallRuleMatchesResource \/ CallRuleMatches

SpecResource == InitResource /\ [][NextResource]_vars

\* C5: a rule whose only resource tuple has the request's apiGroup, no
\* resourceNames and the single type spec "pods/*" matches a typed-resource
\* request for "pods" when its subresource is non-empty, and does not match
\* when its subresource is empty.
C5_ResourceSlashStar ==
    (/\ ret # <<>>
     /\ args[1].Namespaces = <<>>
     /\ args[1].Resources[1].Group = args[2].APIGroup
     /\ args[1].Resources[1].ResourceNames = <<>>
     /\ args[1].Resources[1].Resources = <<S_podsStar>>
     /\ args[2].IsResourceRequest
     /\ args[2].Resource = S_pods)
    => ret[2] = (args[2].Subresource # <<>>)

(***************************************************************************)
(* The evaluator: construction and evaluation.                             *)
(***************************************************************************)
\* unionStages without the map: the lists appended, repeated stages kept
unionStages_Appended(stageLists) ==
    {IF Len(stageLists) = 2 THEN stageLists[1] \o stageLists[2] ELSE <<>>}

\* unionStages ranges over a Go map: its result holds each stage of its
\* arguments once, in an order the runtime chooses
unionStages(stageLists) ==
    Orderings(UNION {Range(stageLists[i]) : i \in 1..Len(stageLists)})

\* lines 35-37, whole: every array the loop can leave behind
RECURSIVE NormalizedFrom(_, _, _)
NormalizedFrom(rs, policyStages, i) ==
    IF i > Len(rs) THEN {rs}
    ELSE UNION {NormalizedFrom([rs EXCEPT ![i].OmitStages = st], policyStages, i + 1) :
                    st \in unionStages(<<policyStages, rs[i].OmitStages>>)}

\* line 106 dereferences rule.OmitManagedFields of every rule
DumpDereferencesNil(rs) == \E i \in 1..Len(rs) : rs[i].OmitManagedFields = Nil

RulesDump == [by |-> "NewPolicyRuleEvaluator", text |-> "Rules:"]
AttrsDump == [by |-> "EvaluatePolicyRule", text |-> "attrs:"]

\* line 115: the evaluator holds a copy of the Policy struct; its Rules field
\* is a slice header over the same backing array, the variable rules
PolicyCopy == [OmitStages |-> policy.OmitStages,
               OmitManagedFields |-> policy.OmitManagedFields]

MatchDisposition(p, rule) ==
    [Level |-> rule.Level,
     OmitStages |-> rule.OmitStages,
     OmitManagedFields |-> isOmitManagedFields(rule, p.OmitManagedFields)]

\* the fallback without the policy-wide stages
DefaultDisposition_NoStages(p) ==
    [Level |-> DefaultAuditLevel,
     OmitStages |-> <<>>,
     OmitManagedFields |-> p.OmitManagedFields]

DefaultDisposition(p) ==
    [Level |-> DefaultAuditLevel,
     OmitStages |-> p.OmitStages,
     OmitManagedFields |-> p.OmitManagedFields]

\* lines 174-192: the scan from rule i on
RECURSIVE EvaluateFrom(_, _, _, _)
EvaluateFrom(p, rs, a, i) ==
    IF i > Len(rs) THEN DefaultDisposition(p)
    ELSE IF ruleMatches(rs[i], a) THEN MatchDisposition(p, rs[i])
    ELSE EvaluateFrom(p, rs, a, i + 1)

\* the scan without the early return: the last matching rule decides
EvaluatePolicyRule_LastMatch(p, rs, a) ==
    LET matching == {i \in 1..Len(rs) : ruleMatches(rs[i], a)}
    IN  IF matching = {} THEN DefaultDisposition(p)
        ELSE MatchDisposition(p, rs[CHOOSE i \in matching : \A j \in matching : j <= i])

EvaluatePolicyRule(p, rs, a) == EvaluateFrom(p, rs, a, 1)

(***************************************************************************)
(* Policies and requests.                                                  *)
(***************************************************************************)
Stages == {"RequestReceived", "ResponseComplete"}

StageLists == SeqsUpTo(Stages, MaxStageLen)

Alice == [Name |-> "alice", Groups |-> <<"admins">>]
Bob == [Name |-> "bob", Groups |-> <<"devs">>]
Carol == [Name |-> "carol", Groups |-> <<"devs", "admins">>]

PodsAttrs(user, verb) ==
    [User |-> user, Verb |-> verb, IsResourceRequest |-> TRUE,
     Namespace |-> "default", Resource |-> S_pods, Subresource |-> <<>>,
     Name |-> "web", APIGroup |-> "", Path |-> <<>>]

AttrsSet ==
    {PodsAttrs(u, v) : u \in {Nil, Ptr(Alice), Ptr(Bob), Ptr(Carol)}, v \in {"get", "list"}}
    \cup {[NonResourceAttrs(S_api) EXCEPT !.User = u] :
              u \in {Nil, Ptr(Alice), Ptr(Bob), Ptr(Carol)}}

Predicates ==
    {[NoRule EXCEPT !.Users = us, !.UserGroups = gs] :
        us \in {<<>>, <<"alice", "bob">>}, gs \in {<<>>, <<"admins">>}}
    \cup {[NoRule EXCEPT !.Verbs = <<"get">>],
          [NoRule EXCEPT !.Resources =
              <<[Group |-> "", Resources |-> <<S_pods>>, ResourceNames |-> <<>>]>>],
          [NoRule EXCEPT !.NonResourceURLs = <<S_apiStar>>]}

EvalRules ==
    {[pr EXCEPT !.Level = d[1], !.OmitStages = d[2], !.OmitManagedFields = d[3]] :
        pr \in Predicates,
        d \in {<<"Metadata", <<>>, Ptr(TRUE)>>,
               <<"Request", <<"ResponseComplete">>, Ptr(FALSE)>>,
               <<"RequestResponse", <<>>, Nil>>}}

EvalPolicies ==
    {[OmitStages |-> <<"RequestReceived">>, OmitManagedFields |-> omf, Rules |-> rs] :
        omf \in BOOLEAN, rs \in SeqsUpTo(EvalRules, MaxRules)}

NormRules ==
    {[NoRule EXCEPT !.Level = "Metadata", !.OmitStages = sl,
                    !.OmitManagedFields = Ptr(TRUE)] : sl \in StageLists}

NormPolicies ==
    {[OmitStages |-> sl, OmitManagedFields |-> FALSE, Rules |-> rs] :
        sl \in StageLists, rs \in {<<r>> : r \in NormRules}}

InitWith(policies) ==
    /\ \E pol \in policies :
          /\ policy = [OmitStages |-> pol.OmitStages,
                       OmitManagedFields |-> pol.OmitManagedFields]
          /\ rules = pol.Rules
          /\ declared = [i \in 1..Len(pol.Rules) |-> pol.Rules[i].OmitStages]
    /\ evaluators = {}
    /\ newPc = "idle"
    /\ newIdx = 0
    /\ newCalls = 0
    /\ evalPc = [g \in Goroutines |-> "idle"]
    /\ evalIdx = [g \in Goroutines |-> 0]
    /\ evalP = [g \in Goroutines |-> [OmitStages |-> <<>>, OmitManagedFields |-> FALSE]]
    /\ attrs = [g \in Goroutines |-> NonResourceAttrs(<<>>)]
    /\ result = [g \in Goroutines |-> <<>>]
    /\ stdout = {}
    /\ args = <<>>
    /\ ret = <<>>

(***************************************************************************)
(* One caller, goroutine 1: the evaluator is built once, then asked.  Each *)
(* call is one step.                                                       *)
(***************************************************************************)
CallNewPolicyRuleEvaluator ==
    /\ newPc = "idle"
    /\ evaluators = {}
    /\ newCalls' = newCalls + 1
    /\ \E rs \in NormalizedFrom(rules, policy.OmitStages, 1) :
          /\ rules' = rs
          /\ IF DumpDereferencesNil(rs)
             THEN /\ newPc' = "panicked"
                  /\ UNCHANGED <<stdout, evaluators>>
             ELSE /\ stdout' = stdout \cup {RulesDump}
                  /\ evaluators' = evaluators \cup {PolicyCopy}
                  /\ newPc' = "idle"
    /\ UNCHANGED <<policy, declared, newIdx, evalPc, evalIdx, evalP, attrs, result,
                   args, ret>>

CallEvaluatePolicyRule ==
    /\ newPc = "idle"
    /\ evalPc[1] = "idle"
    /\ \E p \in evaluators, a \in AttrsSet :
          /\ evalP' = [evalP EXCEPT ![1] = p]
          /\ attrs' = [attrs EXCEPT ![1] = a]
          /\ stdout' = stdout \cup {AttrsDump}
          /\ result' = [result EXCEPT ![1] = <<EvaluatePolicyRule(p, rules, a)>>]
    /\ UNCHANGED <<policy, rules, declared, evaluators, newPc, newIdx, newCalls,
                   evalPc, evalIdx, args, ret>>

InitEval == InitWith(EvalPolicies \cup NormPolicies)

NextEval == CallNewPolicyRuleEvaluator \/ CallEvaluatePolicyRule

SpecEval == InitEval /\ [][NextEval]_vars

\* rule i is the first rule, in declaration order, that matches request a
FirstMatch(i, a) ==
    /\ ruleMatches(rules[i], a)
    /\ \A j \in 1..(i - 1) : ~ruleMatches(rules[j], a)

\* goroutine g's last EvaluatePolicyRule call has returned
Returned(g) == evalPc[g] = "idle" /\ result[g] # <<>>

\* C1: when at least one rule matches the request, the call returns the level,
\* omitStages and resolved omitManagedFields of the matching rule with the
\* smallest index; a later matching rule never decides.
C1_FirstMatchPrecedence ==
    \A g \in Goroutines :
        Returned(g) =>
            \A i \in 1..Len(rules) :
                FirstMatch(i, attrs[g]) =>
                    result[g][1] =
                        [Level |-> rules[i].Level,
                         OmitStages |-> rules[i].OmitStages,
                         OmitManagedFields |->
                             IF rules[i].OmitManagedFields = Nil
                             THEN policy.OmitManagedFields
                             ELSE rules[i].OmitManagedFields[1]]

\* two rules match the request and differ in level, stages and omitManagedFields
C1_Witness ==
    \E g \in Goroutines :
        /\ Returned(g)
        /\ Len(rules) = 2
        /\ ruleMatches(rules[1], attrs[g])
        /\ ruleMatches(rules[2], attrs[g])
        /\ rules[1].Level # rules[2].Level
        /\ rules[1].OmitStages # rules[2].OmitStages
        /\ rules[1].OmitManagedFields # rules[2].OmitManagedFields
        /\ result[g][1].Level = rules[1].Level

\* C4: once the evaluator is built, every rule's omitStages holds exactly the
\* stages of its declared omitStages and of the policy-wide omitStages, none
\* twice, and a matched rule's returned omitStages is that list: evaluation
\* merges nothing more.
C4_StageUnionClosure ==
    evaluators # {} =>
        /\ \A i \in 1..Len(rules) :
              /\ Range(rules[i].OmitStages) =
                     Range(declared[i]) \cup Range(policy.OmitStages)
              /\ NoDuplicates(rules[i].OmitStages)
        /\ \A g \in Goroutines :
              Returned(g) =>
                  \A i \in 1..Len(rules) :
                      FirstMatch(i, attrs[g]) =>
                          result[g][1].OmitStages = rules[i].OmitStages

\* a matched rule whose declared stages overlap the policy-wide ones, which
\* add a stage to it
C4_Witness ==
    \E g \in Goroutines :
        /\ Returned(g)
        /\ \E i \in 1..Len(rules) :
              /\ FirstMatch(i, attrs[g])
              /\ Len(declared[i]) + Len(policy.OmitStages) > Len(rules[i].OmitStages)
              /\ Range(policy.OmitStages) \ Range(declared[i]) # {}
              /\ Range(declared[i]) \ Range(policy.OmitStages) # {}
              /\ result[g][1].OmitStages = rules[i].OmitStages

\* C6: when no rule matches (a policy without rules included), the call
\* returns level None, the policy-wide omitStages and the policy-wide
\* omitManagedFields.
C6_DefaultFallback ==
    \A g \in Goroutines :
        (Returned(g) /\ \A i \in 1..Len(rules) : ~ruleMatches(rules[i], attrs[g])) =>
            result[g][1] = [Level |-> "None",
                            OmitStages |-> policy.OmitStages,
                            OmitManagedFields |-> policy.OmitManagedFields]

\* a policy with rules, none of which matches the request
C6_Witness ==
    \E g \in Goroutines :
        /\ Returned(g)
        /\ Len(rules) = 2
        /\ \A i \in 1..Len(rules) : ~ruleMatches(rules[i], attrs[g])
        /\ policy.OmitStages # <<>>
        /\ policy.OmitManagedFields
        /\ result[g][1].Level = "None"

\* the identity predicates of rule r, as stated: declared users need a
\* requester whose name is among them, declared groups a requester in one of them
IdentityPasses(r, a) ==
    /\ r.Users # <<>> =>
          a.User # Nil /\ a.User[1].Name \in Range(r.Users)
    /\ r.UserGroups # <<>> =>
          a.User # Nil /\ Range(a.User[1].Groups) \cap Range(r.UserGroups) # {}

\* C8: a rule declaring users or userGroups never matches a request without a
\* requester, whatever its other fields; the scan goes on to the later rules;
\* with both declared, both must pass.
C8_FailClosedIdentity ==
    \A g \in Goroutines :
        Returned(g) =>
            LET Passes(r) == IdentityPasses(r, attrs[g])
            IN  /\ \A i \in 1..Len(rules) :
                      ruleMatches(rules[i], attrs[g]) => Passes(rules[i])
                /\ \A i \in 1..Len(rules) :
                      (/\ attrs[g].User = Nil
                       /\ rules[i].Users # <<>> \/ rules[i].UserGroups # <<>>)
                          => ~FirstMatch(i, attrs[g])
                /\ result[g][1] =
                       EvaluatePolicyRule(evalP[g], SelectSeq(rules, Passes), attrs[g])

\* a request without a requester skipped a rule declaring users that matches
\* the same request made by alice, and was decided by the next rule
C8_Witness ==
    \E g \in Goroutines :
        /\ Returned(g)
        /\ attrs[g].User = Nil
        /\ Len(rules) = 2
        /\ rules[1].Users # <<>>
        /\ ruleMatches(rules[1], [attrs[g] EXCEPT !.User = Ptr(Alice)])
        /\ ruleMatches(rules[2], attrs[g])
        /\ rules[1].Level # rules[2].Level
        /\ result[g][1].Level = rules[2].Level

\* C10: for every request and the rule that matches it first, the evaluator
\* built from the policy returns the rule's own omitManagedFields when the rule
\* sets it, and the policy-wide omitManagedFields when the rule leaves it unset.
C10_OmitManagedFieldsOverride ==
    newCalls > 0 =>
        \A a \in AttrsSet : \A i \in 1..Len(rules) :
            FirstMatch(i, a) =>
                /\ evaluators # {}
                /\ \A p \in evaluators :
                      EvaluatePolicyRule(p, rules, a).OmitManagedFields =
                          IF rules[i].OmitManagedFields = Nil
                          THEN policy.OmitManagedFields
                          ELSE rules[i].OmitManagedFields[1]

(***************************************************************************)
(* Callers running at once: one goroutine builds evaluators from the same  *)
(* Policy value, call after call, while the others evaluate requests.      *)
(* Each step is one iteration of a loop of the code.                       *)
(***************************************************************************)
SpecRules ==
    {[NoRule EXCEPT !.Level = "Metadata", !.OmitStages = <<"ResponseComplete">>,
                    !.OmitManagedFields = Ptr(TRUE)],
     [NoRule EXCEPT !.Level = "Request", !.Verbs = <<"get">>,
                    !.OmitManagedFields = Ptr(FALSE)],
     [NoRule EXCEPT !.Level = "RequestResponse", !.Users = <<"alice", "bob">>]}

SpecPolicies ==
    {[OmitStages |-> <<"RequestReceived">>, OmitManagedFields |-> FALSE, Rules |-> rs] :
        rs \in SeqsUpTo(SpecRules, MaxRules)}

SpecAttrs == {PodsAttrs(Nil, "list"), PodsAttrs(Ptr(Alice), "get")}

\* line 34, entering the loop of line 35
NewBegin ==
    /\ newPc = "idle"
    /\ newCalls < MaxNewCalls
    /\ newCalls' = newCalls + 1
    /\ newIdx' = 1
    /\ newPc' = IF Len(rules) = 0 THEN "dump" ELSE "union"
    /\ UNCHANGED <<policy, rules, declared, evaluators, evalPc, evalIdx, evalP,
                   attrs, result, stdout, args, ret>>

\* line 36: policy.Rules[i].OmitStages = unionStages(policy.OmitStages, rule.OmitStages)
NewUnionStep ==
    /\ newPc = "union"
    /\ \E st \in unionStages(<<policy.OmitStages, rules[newIdx].OmitStages>>) :
          rules' = [rules EXCEPT ![newIdx].OmitStages = st]
    /\ newIdx' = newIdx + 1
    /\ newPc' = IF newIdx = Len(rules) THEN "dump" ELSE "union"
    /\ UNCHANGED <<policy, declared, evaluators, newCalls, evalPc, evalIdx, evalP,
                   attrs, result, stdout, args, ret>>

\* lines 39-113: the dump is built, line 106 dereferencing every rule's
\* OmitManagedFields, and then printed
NewDump ==
    /\ newPc = "dump"
    /\ IF DumpDereferencesNil(rules)
       THEN /\ newPc' = "panicked"
            /\ UNCHANGED stdout
       ELSE /\ stdout' = stdout \cup {RulesDump}
            /\ newPc' = "return"
    /\ UNCHANGED <<policy, rules, declared, evaluators, newIdx, newCalls, evalPc,
                   evalIdx, evalP, attrs, result, args, ret>>

\* line 115
NewReturn ==
    /\ newPc = "return"
    /\ evaluators' = evaluators \cup {PolicyCopy}
    /\ newPc' = "idle"
    /\ UNCHANGED <<policy, rules, declared, newIdx, newCalls, evalPc, evalIdx, evalP,
                   attrs, result, stdout, args, ret>>

\* lines 143-172: the call starts by printing the request
EvalBegin(g) ==
    /\ evalPc[g] = "idle"
    /\ newPc # "panicked"
    /\ \E p \in evaluators, a \in SpecAttrs :
          /\ evalP' = [evalP EXCEPT ![g] = p]
          /\ attrs' = [attrs EXCEPT ![g] = a]
    /\ stdout' = stdout \cup {AttrsDump}
    /\ result' = [result EXCEPT ![g] = <<>>]
    /\ evalIdx' = [evalIdx EXCEPT ![g] = 1]
    /\ evalPc' = [evalPc EXCEPT ![g] = "scan"]
    /\ UNCHANGED <<policy, rules, declared, evaluators, newPc, newIdx, newCalls,
                   args, ret>>

\* a further NewPolicyRuleEvaluator call on the same Policy has assigned
\* rule i's OmitStages again; nothing orders that write with the reads of an
\* evaluation
Rewritten(i) ==
    \/ newCalls > 2
    \/ newCalls = 2 /\ (newPc # "union" \/ newIdx > i)

\* line 174 copies rule i.  Racing with the write of line 36 the copy's
\* OmitStages is the list before the write, the list after it, or the new
\* array before its elements are visible
ReadRule(i) ==
    LET cur == rules[i].OmitStages
    IN  {[rules[i] EXCEPT !.OmitStages = st] :
            st \in IF Rewritten(i)
                   THEN Orderings(Range(cur)) \cup {[k \in 1..Len(cur) |-> ""]}
                   ELSE {cur}}

\* the iteration of lines 174-184 with the rule merged with the policy-wide
\* stages again, in place
EvalRangeStep_MergesInPlace(g) ==
    /\ evalPc[g] = "scan"
    /\ evalIdx[g] <= Len(rules)
    /\ \E st \in unionStages(<<evalP[g].OmitStages, rules[evalIdx[g]].OmitStages>>) :
          /\ rules' = [rules EXCEPT ![evalIdx[g]].OmitStages = st]
          /\ IF ruleMatches(rules[evalIdx[g]], attrs[g])
             THEN /\ result' = [result EXCEPT
                                   ![g] = <<MatchDisposition(evalP[g], rules'[evalIdx[g]])>>]
                  /\ evalPc' = [evalPc EXCEPT ![g] = "idle"]
                  /\ UNCHANGED evalIdx
             ELSE /\ evalIdx' = [evalIdx EXCEPT ![g] = evalIdx[g] + 1]
                  /\ UNCHANGED <<result, evalPc>>
    /\ UNCHANGED <<policy, declared, evaluators, newPc, newIdx, newCalls, evalP,
                   attrs, stdout, args, ret>>

\* lines 174-184: one iteration
EvalRangeStep(g) ==
    /\ evalPc[g] = "scan"
    /\ evalIdx[g] <= Len(rules)
    /\ \E rule \in ReadRule(evalIdx[g]) :
          IF ruleMatches(rule, attrs[g])
          THEN /\ result' = [result EXCEPT ![g] = <<MatchDisposition(evalP[g], rule)>>]
               /\ evalPc' = [evalPc EXCEPT ![g] = "idle"]
               /\ UNCHANGED evalIdx
          ELSE /\ evalIdx' = [evalIdx EXCEPT ![g] = evalIdx[g] + 1]
               /\ UNCHANGED <<result, evalPc>>
    /\ UNCHANGED <<policy, rules, declared, evaluators, newPc, newIdx, newCalls,
                   evalP, attrs, stdout, args, ret>>

\* lines 186-192
EvalReturnDefault(g) ==
    /\ evalPc[g] = "scan"
    /\ evalIdx[g] > Len(rules)
    /\ result' = [result EXCEPT ![g] = <<DefaultDisposition(evalP[g])>>]
    /\ evalPc' = [evalPc EXCEPT ![g] = "idle"]
    /\ UNCHANGED <<policy, rules, declared, evaluators, newPc, newIdx, newCalls,
                   evalIdx, evalP, attrs, stdout, args, ret>>

Init == InitWith(SpecPolicies)

Next ==
    \/ NewBegin
    \/ NewUnionStep
    \/ NewDump
    \/ NewReturn
    \/ \E g \in Goroutines : EvalBegin(g)
    \/ \E g \in Goroutines : EvalRangeStep(g)
    \/ \E g \in Goroutines : EvalReturnDefault(g)

Spec == Init /\ [][Next]_vars

\* C2: construction has no error condition: for every Policy, rules that
\* leave omitManagedFields unset included, NewPolicyRuleEvaluator completes
\* and never faults.
C2_ConstructionNeverFaults == newPc # "panicked"

\* C3: EvaluatePolicyRule has no observable side effect: a step of a call
\* writes nothing to any output stream and leaves the policy, the rule
\* sequence and its request unchanged.
C3_EvaluateHasNoSideEffect ==
    [][(evalPc' # evalPc \/ evalIdx' # evalIdx)
         => /\ stdout' = stdout
            /\ rules' = rules
            /\ policy' = policy
            /\ \A g \in Goroutines : evalPc[g] # "idle" => attrs'[g] = attrs[g]]_vars

\* C9 as stated: once an evaluator was returned, nothing writes the rule
\* sequence or a rule's field again, whatever EvaluatePolicyRule calls and
\* further NewPolicyRuleEvaluator calls on the same Policy run at once.
C9_ReadOnlyAfterConstruction ==
    [][evaluators # {} => rules' = rules]_vars

\* C9 as amended: once an evaluator was returned, no EvaluatePolicyRule call
\* writes the rule sequence or a rule's field, and only line 36 of a further
\* NewPolicyRuleEvaluator call on the same Policy does; as long as no such
\* further call was made, every concurrent EvaluatePolicyRule call returns
\* what it would return run alone.
C9_ReadOnlyUnlessBuiltAgain ==
    [][/\ (evaluators # {} /\ newPc # "union") => rules' = rules
       /\ \A g \in Goroutines :
             (evalPc[g] = "scan" /\ evalPc'[g] = "idle" /\ newCalls <= 1)
                 => result'[g] = <<EvaluatePolicyRule(evalP[g], rules, attrs[g])>>]_vars

\* two evaluations ran at once on the evaluator of the only construction:
\* one has returned, decided by the second rule, the other is in its scan
C9_Witness ==
    /\ evaluators # {}
    /\ newCalls = 1
    /\ Len(rules) = 2
    /\ \E g, h \in Goroutines :
          /\ Returned(g)
          /\ ~ruleMatches(rules[1], attrs[g])
          /\ result[g][1].Level = rules[2].Level
          /\ evalPc[h] = "scan"
          /\ evalIdx[h] = 2

====
